---- MODULE Spec2Model ----
(***************************************************************************)
(* Model of the PDF text-extraction endpoint (src/src/index.ts): the       *)
(* request handler of POST /api/extract-text, the helper                   *)
(* extractTextWithOCR and the scratch files they share.  One action per    *)
(* continuation of the async code: the JavaScript that runs between the    *)
(* completion of one awaited call and the issue of the next is atomic,     *)
(* and requests interleave only at the awaits.                             *)
(***************************************************************************)
EXTENDS Integers, Sequences, FiniteSets, TLC

\* Number of requests the server handles in one behaviour.
MaxReq == 2

\* extractedText.length < 50 (the gate of the handler)
MinTextLength == 50

Reqs == 1..MaxReq

----------------------------------------------------------------------------
\* Text: a string is a sequence of one-character strings.

Whitespace == {" ", "\n", "\t"}

Rep(c, n) == [i \in 1..n |-> c]

RECURSIVE TrimStart(_)
TrimStart(s) ==
  IF s # <<>> /\ Head(s) \in Whitespace THEN TrimStart(Tail(s)) ELSE s

RECURSIVE TrimEnd(_)
TrimEnd(s) ==
  IF s # <<>> /\ s[Len(s)] \in Whitespace
    THEN TrimEnd(SubSeq(s, 1, Len(s) - 1))
    ELSE s

\* String.prototype.trim
Trim(s) == TrimEnd(TrimStart(s))

----------------------------------------------------------------------------
\* Payloads.  A payload is identified by a number; what the black-box
\* collaborators do with its bytes is a function of the payload
\* (deterministic collaborators).  Payload 0 stands for a request that
\* carries no file.

NoFile == 0

Short == <<"s", "h", "o", "r", "t">>

\* parseOk/parseText: pdfParse(buffer) resolves with {text} or rejects.
\* pages: the number of pages of the document.
\* rasterOk: pdf2pic can render these bytes.
\* ocrOk/ocrText: worker.recognize on the rendered first page resolves with
\* text or rejects.
Payloads == <<
  \* a text PDF, well above the threshold, padded with whitespace
  [parseOk |-> TRUE,  parseText |-> <<" ">> \o Rep("x", MinTextLength + 1) \o <<"\n">>,
   pages |-> 1, rasterOk |-> TRUE, ocrOk |-> TRUE, ocrText |-> Rep("a", 3)],
  \* exactly the threshold once trimmed
  [parseOk |-> TRUE,  parseText |-> <<"\n">> \o Rep("y", MinTextLength) \o <<" ", " ">>,
   pages |-> 1, rasterOk |-> TRUE, ocrOk |-> TRUE, ocrText |-> Rep("b", 3)],
  \* one below the threshold once trimmed, at the threshold untrimmed;
  \* the OCR text is shorter than the structural text
  [parseOk |-> TRUE,  parseText |-> <<" ">> \o Rep("z", MinTextLength - 1) \o <<" ">>,
   pages |-> 2, rasterOk |-> TRUE, ocrOk |-> TRUE, ocrText |-> Rep("c", 21)],
  \* scanned document of two pages: no text layer, OCR finds text
  [parseOk |-> TRUE,  parseText |-> <<>>,
   pages |-> 2, rasterOk |-> TRUE, ocrOk |-> TRUE, ocrText |-> Rep("d", 21)],
  \* a little text, recognition fails
  [parseOk |-> TRUE,  parseText |-> Short,
   pages |-> 1, rasterOk |-> TRUE, ocrOk |-> FALSE, ocrText |-> <<>>],
  \* no text layer, cannot be rasterized
  [parseOk |-> TRUE,  parseText |-> <<>>,
   pages |-> 1, rasterOk |-> FALSE, ocrOk |-> FALSE, ocrText |-> <<>>],
  \* the parser rejects it, OCR finds text
  [parseOk |-> FALSE, parseText |-> <<>>,
   pages |-> 1, rasterOk |-> TRUE, ocrOk |-> TRUE, ocrText |-> Rep("g", 4) \o <<"\n">>],
  \* a little text between whitespace, blank page for the OCR engine
  [parseOk |-> TRUE,  parseText |-> <<"\t">> \o Short \o <<"\n">>,
   pages |-> 1, rasterOk |-> TRUE, ocrOk |-> TRUE, ocrText |-> <<>>],
  \* whitespace only, recognition fails
  [parseOk |-> TRUE,  parseText |-> <<" ", "\n">>,
   pages |-> 1, rasterOk |-> TRUE, ocrOk |-> FALSE, ocrText |-> <<>>]
>>

Docs == 1..Len(Payloads)

\* The page numbers of the longest document.
PageNumbers == 1..(CHOOSE n \in {Payloads[d].pages : d \in Docs} :
                     \A d \in Docs : Payloads[d].pages <= n)

\* lines 75-81: extractedText after the structural attempt: '' at first,
\* result.text.trim() when pdfParse resolves, still '' when it rejects.
StructuralText(d) ==
  IF Payloads[d].parseOk THEN Trim(Payloads[d].parseText) ELSE <<>>

----------------------------------------------------------------------------
VARIABLES
  buffer,        \* buffer[r]: req.file.buffer of request r (a payload), or NoFile
  pc,            \* pc[r]: the awaited call whose completion request r waits for
  extractedText, \* extractedText[r]: the handler's local `extractedText`
  parseFailed,   \* parseFailed[r]: pdfParse rejected for request r
  ocrCalls,      \* ocrCalls[r]: number of calls of extractTextWithOCR by request r
  ocrResult,     \* ocrResult[r]: "none", "running", "returned" or "thrown"
  text,          \* text[r]: extractTextWithOCR's local `text`
  files,         \* files[p]: the file at path p: who created it, which bytes it derives from
  workers,       \* workers[w]: state of Tesseract worker w
  response,      \* response[r]: what was sent with res.json
  tempDirExists, \* the directory ./temp exists
  engineOk,      \* createWorker('eng') can start a worker (traineddata available)
  pageToConvertAsImage, \* pageToConvertAsImage[r]: what the rasterizer resolved with
  mkdir,         \* the promise of fs.mkdir(tempDir) made at module load
  request        \* request[r]: method, multipart boundary and stream failure of request r

vars == <<buffer, pc, extractedText, parseFailed, ocrCalls, ocrResult, text,
          files, workers, response, tempDirExists, engineOk,
          pageToConvertAsImage, mkdir, request>>

\* const tempPdfPath = './temp/temp.pdf'
TempPdfPath(r) == "./temp/temp.pdf"

\* pageToConvertAsImage.path: pdf2pic names page 1 after
\* savePath "./temp", saveFilename "temp" and format "png"
ImagePath(r) == "./temp/temp.1.png"

\* pdf2pic writes page n to <savePath>/<saveFilename>.<n>.<format>, with
\* saveFilename "temp" and format "png" in every variant
PageImagePath(savePath, n) == savePath \o "/temp." \o ToString(n) \o ".png"

\* pages/index.tsx: const tempDir = '/tmp'
PagesTempDir == "/tmp"

\* pages/index.tsx: const tempPdfPath = join(tempDir, 'temp.pdf')
PagesTempPdfPath(r) == "/tmp/temp.pdf"

Paths ==
  {TempPdfPath(r) : r \in Reqs} \cup {ImagePath(r) : r \in Reqs}
    \cup {PagesTempPdfPath(r) : r \in Reqs}
    \cup {PageImagePath(PagesTempDir, n) : n \in PageNumbers}

\* The value thrown by a failed call: an Error with its message, or
\* something that is not an Error.  NoFailure: nothing was thrown.
NoFailure == [thrown |-> FALSE, isError |-> FALSE, message |-> ""]

\* A request as the Express route sees it: a POST whose upload multer has
\* already read.
UploadedRequest == [method |-> "POST", boundary |-> TRUE, failure |-> NoFailure]

\* by = 0: no file at the path.  Otherwise the request whose call created
\* (or last overwrote) the file, and the payload its content derives from.
Absent == [by |-> 0, data |-> 0]

\* One worker created at module scope and used by every call.
SharedWorkerId(r) == 1

\* const worker = await createWorker('eng'): a worker of its own per call
WorkerId(r) == r

NoResponse == [kind |-> "none", status |-> 0, text |-> <<>>, error |-> ""]

\* res.json({ text: extractedText })
TextResponse(t) == [kind |-> "text", status |-> 200, text |-> t, error |-> ""]

\* res.status(s).json({ error: m })
ErrorResponse(s, m) == [kind |-> "error", status |-> s, text |-> <<>>, error |-> m]

NoFileMessage == "No PDF file provided"

\* line 101 (pages/index.tsx line 246)
DefaultMessage == "An error occurred while processing the PDF"

\* pages/index.tsx line 190
MethodNotAllowedMessage == "Method not allowed"

\* pages/index.tsx line 199
InvalidFormMessage == "Invalid multipart form data"

\* The outer catch answering with the default message whatever was thrown.
OuterCatchMessageDefaultOnly(e) == DefaultMessage

\* error instanceof Error ? error.message : 'An error occurred ...'
\* (line 101, pages/index.tsx line 246)
OuterCatchMessage(e) == IF e.isError THEN e.message ELSE DefaultMessage

BothFailedMessage == "Failed to extract text from PDF using both direct extraction and OCR"

\* The gate with <= in place of <.
NeedsOCRInclusive(t) == t = <<>> \/ Len(t) <= MinTextLength

\* The gate without its length test.
NeedsOCREmptyOnly(t) == t = <<>>

\* !extractedText || extractedText.length < 50
NeedsOCR(t) == t = <<>> \/ Len(t) < MinTextLength

PcValues == {"start", "parseForm", "pdfParse", "writeFile", "convert", "createWorker",
             "recognize", "terminate", "unlinkPdf", "unlinkImage", "done"}

InOCR(r) == pc[r] \in {"writeFile", "convert", "createWorker", "recognize",
                       "terminate", "unlinkPdf", "unlinkImage"}

TypeOK ==
  /\ buffer \in [Reqs -> {NoFile} \cup Docs]
  /\ pc \in [Reqs -> PcValues]
  /\ parseFailed \in [Reqs -> BOOLEAN]
  /\ ocrCalls \in [Reqs -> Nat]
  /\ ocrResult \in [Reqs -> {"none", "running", "returned", "thrown"}]
  /\ \A p \in Paths : files[p].by \in {0} \cup Reqs /\ files[p].data \in {0} \cup Docs
  /\ workers \in [Reqs -> {"none", "live", "terminated"}]
  /\ \A r \in Reqs : response[r].kind \in {"none", "text", "error"}
  /\ tempDirExists \in BOOLEAN
  /\ engineOk \in BOOLEAN
  /\ \A r \in Reqs : \A i \in DOMAIN pageToConvertAsImage[r] :
       pageToConvertAsImage[r][i].page \in PageNumbers
  /\ mkdir \in {"pending", "resolved", "rejected"}
  /\ \A r \in Reqs : request[r].method \in {"POST", "GET"}

\* The requests of a behaviour and the environment they run in.  The scratch
\* directory is the outcome of fs.mkdir(tempDir, {recursive: true}) at
\* startup, whose failure is only logged.
Init ==
  /\ buffer \in [Reqs -> {NoFile} \cup Docs]
  /\ pc = [r \in Reqs |-> "start"]
  /\ extractedText = [r \in Reqs |-> <<>>]
  /\ parseFailed = [r \in Reqs |-> FALSE]
  /\ ocrCalls = [r \in Reqs |-> 0]
  /\ ocrResult = [r \in Reqs |-> "none"]
  /\ text = [r \in Reqs |-> <<>>]
  /\ files = [p \in Paths |-> Absent]
  /\ workers = [w \in Reqs |-> "none"]
  /\ response = [r \in Reqs |-> NoResponse]
  /\ tempDirExists \in BOOLEAN
  /\ engineOk \in BOOLEAN
  /\ pageToConvertAsImage = [r \in Reqs |-> <<>>]
  /\ mkdir = IF tempDirExists THEN "resolved" ELSE "rejected"
  /\ request = [r \in Reqs |-> UploadedRequest]

----------------------------------------------------------------------------
\* The handler starting extractTextWithOCR at once, without waiting for
\* the structural attempt and the gate.
ReceiveSpeculative(r) ==
  /\ pc[r] = "start"
  /\ IF buffer[r] = NoFile
       THEN /\ response' = [response EXCEPT ![r] = ErrorResponse(400, NoFileMessage)]
            /\ pc' = [pc EXCEPT ![r] = "done"]
            /\ UNCHANGED <<ocrCalls, ocrResult>>
       ELSE /\ pc' = [pc EXCEPT ![r] = "writeFile"]
            /\ ocrCalls' = [ocrCalls EXCEPT ![r] = @ + 1]
            /\ ocrResult' = [ocrResult EXCEPT ![r] = "running"]
            /\ UNCHANGED response
  /\ UNCHANGED <<buffer, extractedText, parseFailed, text,
                 files, workers, tempDirExists, engineOk,
                 pageToConvertAsImage, mkdir, request>>

\* The handler, lines 69-73 and the call of pdfParse at line 77.
Receive(r) ==
  /\ pc[r] = "start"
  /\ IF buffer[r] = NoFile
       THEN /\ response' = [response EXCEPT ![r] = ErrorResponse(400, NoFileMessage)]
            /\ pc' = [pc EXCEPT ![r] = "done"]
       ELSE /\ pc' = [pc EXCEPT ![r] = "pdfParse"]
            /\ UNCHANGED response
  /\ UNCHANGED <<buffer, extractedText, parseFailed, ocrCalls, ocrResult, text,
                 files, workers, tempDirExists, engineOk,
                 pageToConvertAsImage, mkdir, request>>

\* The handler without its inner try around pdfParse: a rejection reaches
\* the outer catch and ends the request.
AfterPdfParsePropagates(r) ==
  /\ pc[r] = "pdfParse"
  /\ LET t == StructuralText(buffer[r])
     IN /\ parseFailed' = [parseFailed EXCEPT ![r] = ~Payloads[buffer[r]].parseOk]
        /\ extractedText' = [extractedText EXCEPT ![r] = t]
        /\ IF ~Payloads[buffer[r]].parseOk
             THEN /\ response' = [response EXCEPT ![r] = ErrorResponse(500, "Invalid PDF structure")]
                  /\ pc' = [pc EXCEPT ![r] = "done"]
                  /\ UNCHANGED <<ocrCalls, ocrResult>>
             ELSE IF NeedsOCR(t)
             THEN /\ ocrCalls' = [ocrCalls EXCEPT ![r] = @ + 1]
                  /\ ocrResult' = [ocrResult EXCEPT ![r] = "running"]
                  /\ pc' = [pc EXCEPT ![r] = "writeFile"]
                  /\ UNCHANGED response
             ELSE /\ response' = [response EXCEPT ![r] = TextResponse(t)]
                  /\ pc' = [pc EXCEPT ![r] = "done"]
                  /\ UNCHANGED <<ocrCalls, ocrResult>>
  /\ UNCHANGED <<buffer, text, files, workers, tempDirExists, engineOk,
                 pageToConvertAsImage, mkdir, request>>

\* The handler from the completion of pdfParse (line 77) to either the
\* response of line 97 or, through the gate of line 84, the call of
\* extractTextWithOCR and its first await, fs.writeFile (line 42).
AfterPdfParse(r) ==
  /\ pc[r] = "pdfParse"
  /\ LET t == StructuralText(buffer[r])
     IN /\ parseFailed' = [parseFailed EXCEPT ![r] = ~Payloads[buffer[r]].parseOk]
        /\ extractedText' = [extractedText EXCEPT ![r] = t]
        /\ IF NeedsOCR(t)
             THEN /\ ocrCalls' = [ocrCalls EXCEPT ![r] = @ + 1]
                  /\ ocrResult' = [ocrResult EXCEPT ![r] = "running"]
                  /\ pc' = [pc EXCEPT ![r] = "writeFile"]
                  /\ UNCHANGED response
             ELSE /\ response' = [response EXCEPT ![r] = TextResponse(t)]
                  /\ pc' = [pc EXCEPT ![r] = "done"]
                  /\ UNCHANGED <<ocrCalls, ocrResult>>
  /\ UNCHANGED <<buffer, text, files, workers, tempDirExists, engineOk,
                 pageToConvertAsImage, mkdir, request>>

\* The handler's catch answering 500 whatever extractedText holds.
OCRThrowsAlwaysError(r) ==
  /\ ocrResult' = [ocrResult EXCEPT ![r] = "thrown"]
  /\ response' = [response EXCEPT ![r] = ErrorResponse(500, BothFailedMessage)]
  /\ pc' = [pc EXCEPT ![r] = "done"]
  /\ UNCHANGED extractedText

\* The handler's catch returning without an answer when extractedText is
\* empty.
OCRThrowsNoAnswer(r) ==
  /\ ocrResult' = [ocrResult EXCEPT ![r] = "thrown"]
  /\ response' = [response EXCEPT ![r] =
                    IF extractedText[r] = <<>>
                      THEN NoResponse
                      ELSE TextResponse(extractedText[r])]
  /\ pc' = [pc EXCEPT ![r] = "done"]
  /\ UNCHANGED extractedText

\* The handler's catch without its test of extractedText.
OCRThrowsAlwaysText(r) ==
  /\ ocrResult' = [ocrResult EXCEPT ![r] = "thrown"]
  /\ response' = [response EXCEPT ![r] = TextResponse(extractedText[r])]
  /\ pc' = [pc EXCEPT ![r] = "done"]
  /\ UNCHANGED extractedText

\* line 61: the message of the Error thrown by the catch block of
\* extractTextWithOCR
OCRFailedMessage == "Failed to extract text using OCR"

\* The handler's catch answering with the message of the caught ocrError.
OCRThrowsCauseMessage(r) ==
  /\ ocrResult' = [ocrResult EXCEPT ![r] = "thrown"]
  /\ response' = [response EXCEPT ![r] =
                    IF extractedText[r] = <<>>
                      THEN ErrorResponse(500, OCRFailedMessage)
                      ELSE TextResponse(extractedText[r])]
  /\ pc' = [pc EXCEPT ![r] = "done"]
  /\ UNCHANGED extractedText

\* A rejected await inside extractTextWithOCR: its catch block (lines 59-62)
\* throws 'Failed to extract text using OCR', the handler's catch (lines
\* 87-94) answers 500 when extractedText is empty and otherwise falls
\* through to line 97.
OCRThrows(r) ==
  /\ ocrResult' = [ocrResult EXCEPT ![r] = "thrown"]
  /\ response' = [response EXCEPT ![r] =
                    IF extractedText[r] = <<>>
                      THEN ErrorResponse(500, BothFailedMessage)
                      ELSE TextResponse(extractedText[r])]
  /\ pc' = [pc EXCEPT ![r] = "done"]
  /\ UNCHANGED extractedText

\* The handler keeping the structural text unless the OCR text is longer.
OCRReturnsKeepLonger(r) ==
  LET best == IF Len(text[r]) > Len(extractedText[r]) THEN text[r] ELSE extractedText[r]
  IN /\ ocrResult' = [ocrResult EXCEPT ![r] = "returned"]
     /\ extractedText' = [extractedText EXCEPT ![r] = best]
     /\ response' = [response EXCEPT ![r] = TextResponse(best)]
     /\ pc' = [pc EXCEPT ![r] = "done"]

\* extractTextWithOCR returns `text` (line 58); the handler assigns it to
\* extractedText (line 86) and answers (line 97).
OCRReturns(r) ==
  /\ ocrResult' = [ocrResult EXCEPT ![r] = "returned"]
  /\ extractedText' = [extractedText EXCEPT ![r] = text[r]]
  /\ response' = [response EXCEPT ![r] = TextResponse(text[r])]
  /\ pc' = [pc EXCEPT ![r] = "done"]

\* await fs.writeFile(tempPdfPath, pdfBuffer) completes (line 42)
AfterWriteFile(r) ==
  /\ pc[r] = "writeFile"
  /\ IF tempDirExists
       THEN /\ files' = [files EXCEPT ![TempPdfPath(r)] = [by |-> r, data |-> buffer[r]]]
            /\ pc' = [pc EXCEPT ![r] = "convert"]
            /\ UNCHANGED <<extractedText, ocrResult, response>>
       ELSE /\ OCRThrows(r)
            /\ UNCHANGED files
  /\ UNCHANGED <<buffer, parseFailed, ocrCalls, text, workers, tempDirExists, engineOk,
                 pageToConvertAsImage, mkdir, request>>

\* await convert.convert() completes (lines 44-45): page 1 of the file at
\* tempPdfPath is rendered to the image path.
AfterConvert(r) ==
  /\ pc[r] = "convert"
  /\ LET pdf == files[TempPdfPath(r)]
     IN IF pdf.by # 0 /\ Payloads[pdf.data].rasterOk
          THEN /\ files' = [files EXCEPT ![ImagePath(r)] = [by |-> r, data |-> pdf.data]]
               /\ pageToConvertAsImage' = [pageToConvertAsImage EXCEPT ![r] =
                                            <<[page |-> 1, path |-> ImagePath(r)]>>]
               /\ pc' = [pc EXCEPT ![r] = "createWorker"]
               /\ UNCHANGED <<extractedText, ocrResult, response>>
          ELSE /\ OCRThrows(r)
               /\ UNCHANGED <<files, pageToConvertAsImage>>
  /\ UNCHANGED <<buffer, parseFailed, ocrCalls, text, workers, tempDirExists, engineOk,
                 mkdir, request>>

\* await createWorker('eng') completes (line 48)
AfterCreateWorker(r) ==
  /\ pc[r] = "createWorker"
  /\ IF engineOk
       THEN /\ workers' = [workers EXCEPT ![WorkerId(r)] =
                             IF @ = "none" THEN "live" ELSE @]
            /\ pc' = [pc EXCEPT ![r] = "recognize"]
            /\ UNCHANGED <<extractedText, ocrResult, response>>
       ELSE /\ OCRThrows(r)
            /\ UNCHANGED workers
  /\ UNCHANGED <<buffer, parseFailed, ocrCalls, text, files, tempDirExists, engineOk,
                 pageToConvertAsImage, mkdir, request>>

\* The path of the rasterizer's (first) result: pageToConvertAsImage.path
\* in index.ts, pageToConvertAsImage[0].path in pages/index.tsx; undefined
\* when the result carries no path.
ResultPath(r) == pageToConvertAsImage[r][1].path

\* The file at a path, Absent when the path names no file (undefined).
FileAt(path) == IF path \in DOMAIN files THEN files[path] ELSE Absent

\* await worker.recognize(pageToConvertAsImage.path) completes (line 51)
AfterRecognize(r) ==
  /\ pc[r] = "recognize"
  /\ LET img == FileAt(ResultPath(r))
     IN IF workers[WorkerId(r)] = "live" /\ img.by # 0 /\ Payloads[img.data].ocrOk
          THEN /\ text' = [text EXCEPT ![r] = Payloads[img.data].ocrText]
               /\ pc' = [pc EXCEPT ![r] = "terminate"]
               /\ UNCHANGED <<extractedText, ocrResult, response>>
          ELSE /\ OCRThrows(r)
               /\ UNCHANGED text
  /\ UNCHANGED <<buffer, parseFailed, ocrCalls, files, workers, tempDirExists, engineOk,
                 pageToConvertAsImage, mkdir, request>>

\* await worker.terminate() completes (line 54)
AfterTerminate(r) ==
  /\ pc[r] = "terminate"
  /\ workers' = [workers EXCEPT ![WorkerId(r)] = "terminated"]
  /\ pc' = [pc EXCEPT ![r] = "unlinkPdf"]
  /\ UNCHANGED <<buffer, extractedText, parseFailed, ocrCalls, ocrResult, text,
                 files, response, tempDirExists, engineOk,
                 pageToConvertAsImage, mkdir, request>>

\* await fs.unlink(tempPdfPath) completes (line 55); ENOENT when the file
\* is not there.
AfterUnlinkPdf(r) ==
  /\ pc[r] = "unlinkPdf"
  /\ IF files[TempPdfPath(r)].by # 0
       THEN /\ files' = [files EXCEPT ![TempPdfPath(r)] = Absent]
            /\ pc' = [pc EXCEPT ![r] = "unlinkImage"]
            /\ UNCHANGED <<extractedText, ocrResult, response>>
       ELSE /\ OCRThrows(r)
            /\ UNCHANGED files
  /\ UNCHANGED <<buffer, parseFailed, ocrCalls, text, workers, tempDirExists, engineOk,
                 pageToConvertAsImage, mkdir, request>>

\* await fs.unlink(pageToConvertAsImage.path) completes (line 56), then
\* return text (line 58).
AfterUnlinkImage(r) ==
  /\ pc[r] = "unlinkImage"
  /\ IF FileAt(ResultPath(r)).by # 0
       THEN /\ files' = [files EXCEPT ![ResultPath(r)] = Absent]
            /\ OCRReturns(r)
       ELSE /\ OCRThrows(r)
            /\ UNCHANGED files
  /\ UNCHANGED <<buffer, parseFailed, ocrCalls, text, workers, tempDirExists, engineOk,
                 pageToConvertAsImage, mkdir, request>>

Step(r) ==
  \/ Receive(r)
  \/ AfterPdfParse(r)
  \/ AfterWriteFile(r)
  \/ AfterConvert(r)
  \/ AfterCreateWorker(r)
  \/ AfterRecognize(r)
  \/ AfterTerminate(r)
  \/ AfterUnlinkPdf(r)
  \/ AfterUnlinkImage(r)

\* Requests are served concurrently: any request may take its next step.
Next == \E r \in Reqs : Step(r)

Spec == Init /\ [][Next]_vars

\* Two sequential calls: a request is taken up only when every earlier one
\* has been answered.
NextSeq == \E r \in Reqs : (\A q \in Reqs : q < r => pc[q] = "done") /\ Step(r)

SpecSeq == Init /\ [][NextSeq]_vars

\* Process startup, lines 116-123: fs.mkdir(tempDir, {recursive: true}) is
\* called and its promise only gets a .catch(console.error); app.listen
\* follows in the same tick, so requests are served while the promise is
\* pending.  The directory may be there already.
InitStartup ==
  /\ buffer \in [Reqs -> {NoFile} \cup Docs]
  /\ pc = [r \in Reqs |-> "start"]
  /\ extractedText = [r \in Reqs |-> <<>>]
  /\ parseFailed = [r \in Reqs |-> FALSE]
  /\ ocrCalls = [r \in Reqs |-> 0]
  /\ ocrResult = [r \in Reqs |-> "none"]
  /\ text = [r \in Reqs |-> <<>>]
  /\ files = [p \in Paths |-> Absent]
  /\ workers = [w \in Reqs |-> "none"]
  /\ response = [r \in Reqs |-> NoResponse]
  /\ tempDirExists \in BOOLEAN
  /\ engineOk \in BOOLEAN
  /\ pageToConvertAsImage = [r \in Reqs |-> <<>>]
  /\ mkdir = "pending"
  /\ request = [r \in Reqs |-> UploadedRequest]

\* The promise of fs.mkdir settles (lines 118-119).  With recursive: true
\* an existing directory is no error; a rejection is logged and nothing
\* else.  tempDir is path.join(__dirname, '../temp') while the pipeline
\* writes to './temp' of the working directory: when the two differ the
\* promise resolves and ./temp is as it was.
MkdirSettles ==
  /\ mkdir = "pending"
  /\ \/ mkdir' = "resolved" /\ tempDirExists' = TRUE
     \/ mkdir' = "resolved" /\ UNCHANGED tempDirExists
     \/ mkdir' = "rejected" /\ ~tempDirExists /\ UNCHANGED tempDirExists
  /\ UNCHANGED <<buffer, pc, extractedText, parseFailed, ocrCalls, ocrResult, text,
                 files, workers, response, engineOk, pageToConvertAsImage, request>>

NextStartup == MkdirSettles \/ Next

SpecStartup == InitStartup /\ [][NextStartup]_vars

----------------------------------------------------------------------------
\* The Next.js endpoint, pages/index.tsx lines 144-248.  Its handler reads
\* the request body itself, its pipeline works in /tmp and rasterizes with
\* converter.bulk(-1, true); from pdfParse to the response (lines 219-242)
\* and in its use of the worker it is the code of index.ts, modelled by the
\* same actions.

\* What a failed call can throw.
Thrown ==
  { [thrown |-> TRUE, isError |-> TRUE,  message |-> "aborted"],
    [thrown |-> TRUE, isError |-> TRUE,  message |-> ""],
    [thrown |-> TRUE, isError |-> FALSE, message |-> ""] }

\* The requests the endpoint can receive: another method, a body without
\* boundary, a body whose stream emits 'error', a well-formed upload.
PagesRequests ==
  { [method |-> "GET",  boundary |-> TRUE,  failure |-> NoFailure],
    [method |-> "POST", boundary |-> FALSE, failure |-> NoFailure],
    UploadedRequest }
  \cup { [method |-> "POST", boundary |-> TRUE, failure |-> e] : e \in Thrown }

\* /tmp exists; there is no mkdir in this variant.
InitPages ==
  /\ request \in [Reqs -> PagesRequests]
  /\ buffer \in [Reqs -> {NoFile} \cup Docs]
  /\ \A r \in Reqs : request[r] # UploadedRequest => buffer[r] = NoFile
  /\ pc = [r \in Reqs |-> "start"]
  /\ extractedText = [r \in Reqs |-> <<>>]
  /\ parseFailed = [r \in Reqs |-> FALSE]
  /\ ocrCalls = [r \in Reqs |-> 0]
  /\ ocrResult = [r \in Reqs |-> "none"]
  /\ text = [r \in Reqs |-> <<>>]
  /\ files = [p \in Paths |-> Absent]
  /\ workers = [w \in Reqs |-> "none"]
  /\ response = [r \in Reqs |-> NoResponse]
  /\ tempDirExists = TRUE
  /\ engineOk \in BOOLEAN
  /\ pageToConvertAsImage = [r \in Reqs |-> <<>>]
  /\ mkdir = "resolved"

\* handler, lines 189-194: the method test and the call of
\* parseMultipartForm
PagesReceive(r) ==
  /\ pc[r] = "start"
  /\ IF request[r].method # "POST"
       THEN /\ response' = [response EXCEPT ![r] = ErrorResponse(405, MethodNotAllowedMessage)]
            /\ pc' = [pc EXCEPT ![r] = "done"]
       ELSE /\ pc' = [pc EXCEPT ![r] = "parseForm"]
            /\ UNCHANGED response
  /\ UNCHANGED <<buffer, extractedText, parseFailed, ocrCalls, ocrResult, text,
                 files, workers, tempDirExists, engineOk,
                 pageToConvertAsImage, mkdir, request>>

\* await parseMultipartForm(req) completes (line 194).  A rejection (the
\* stream's 'error' event, line 139) is caught by the outer catch, lines
\* 243-247.  Otherwise lines 197-217 look for the boundary and the PDF
\* part, and line 222 calls pdfParse.
PagesAfterParseForm(r) ==
  /\ pc[r] = "parseForm"
  /\ IF request[r].failure.thrown
       THEN /\ response' = [response EXCEPT ![r] =
                               ErrorResponse(500, OuterCatchMessage(request[r].failure))]
            /\ pc' = [pc EXCEPT ![r] = "done"]
       ELSE IF ~request[r].boundary
       THEN /\ response' = [response EXCEPT ![r] = ErrorResponse(400, InvalidFormMessage)]
            /\ pc' = [pc EXCEPT ![r] = "done"]
       ELSE IF buffer[r] = NoFile
       THEN /\ response' = [response EXCEPT ![r] = ErrorResponse(400, NoFileMessage)]
            /\ pc' = [pc EXCEPT ![r] = "done"]
       ELSE /\ pc' = [pc EXCEPT ![r] = "pdfParse"]
            /\ UNCHANGED response
  /\ UNCHANGED <<buffer, extractedText, parseFailed, ocrCalls, ocrResult, text,
                 files, workers, tempDirExists, engineOk,
                 pageToConvertAsImage, mkdir, request>>

\* await fs.writeFile(tempPdfPath, pdfBuffer) completes (line 161)
PagesAfterWriteFile(r) ==
  /\ pc[r] = "writeFile"
  /\ files' = [files EXCEPT ![PagesTempPdfPath(r)] = [by |-> r, data |-> buffer[r]]]
  /\ pc' = [pc EXCEPT ![r] = "convert"]
  /\ UNCHANGED <<buffer, extractedText, parseFailed, ocrCalls, ocrResult, text,
                 workers, response, tempDirExists, engineOk,
                 pageToConvertAsImage, mkdir, request>>

\* bulk(-1, ...): -1 stands for every page of the document
BulkPages(d) == 1..Payloads[d].pages

\* await converter.bulk(-1, true) completes (lines 164-165): every page of
\* the file at tempPdfPath is rendered.  What the second argument `true`
\* asks for is decided by pdf2pic: either each page is saved as an image
\* file and its result carries the path, or each page is returned as
\* base64 and no file is written and no result has a path.
PagesAfterBulk(r) ==
  /\ pc[r] = "convert"
  /\ LET pdf == files[PagesTempPdfPath(r)]
     IN IF pdf.by # 0 /\ Payloads[pdf.data].rasterOk
          THEN /\ \E saved \in BOOLEAN :
                    /\ files' =
                         IF saved
                           THEN [p \in DOMAIN files |->
                                   IF \E n \in BulkPages(pdf.data) : p = PageImagePath(PagesTempDir, n)
                                     THEN [by |-> r, data |-> pdf.data]
                                     ELSE files[p]]
                           ELSE files
                    /\ pageToConvertAsImage' = [pageToConvertAsImage EXCEPT ![r] =
                         [n \in BulkPages(pdf.data) |->
                            [page |-> n,
                             path |-> IF saved THEN PageImagePath(PagesTempDir, n)
                                               ELSE "undefined"]]]
               /\ pc' = [pc EXCEPT ![r] = "createWorker"]
               /\ UNCHANGED <<extractedText, ocrResult, response>>
          ELSE /\ OCRThrows(r)
               /\ UNCHANGED <<files, pageToConvertAsImage>>
  /\ UNCHANGED <<buffer, parseFailed, ocrCalls, text, workers, tempDirExists, engineOk,
                 mkdir, request>>

\* await fs.unlink(tempPdfPath) completes (line 175)
PagesAfterUnlinkPdf(r) ==
  /\ pc[r] = "unlinkPdf"
  /\ IF files[PagesTempPdfPath(r)].by # 0
       THEN /\ files' = [files EXCEPT ![PagesTempPdfPath(r)] = Absent]
            /\ pc' = [pc EXCEPT ![r] = "unlinkImage"]
            /\ UNCHANGED <<extractedText, ocrResult, response>>
       ELSE /\ OCRThrows(r)
            /\ UNCHANGED files
  /\ UNCHANGED <<buffer, parseFailed, ocrCalls, text, workers, tempDirExists, engineOk,
                 pageToConvertAsImage, mkdir, request>>

PagesStep(r) ==
  \/ PagesReceive(r)
  \/ PagesAfterParseForm(r)
  \/ AfterPdfParse(r)
  \/ PagesAfterWriteFile(r)
  \/ PagesAfterBulk(r)
  \/ AfterCreateWorker(r)
  \/ AfterRecognize(r)
  \/ AfterTerminate(r)
  \/ PagesAfterUnlinkPdf(r)
  \/ AfterUnlinkImage(r)

NextPages == \E r \in Reqs : PagesStep(r)

SpecPages == InitPages /\ [][NextPages]_vars

\* Every collaborator call returns or fails: a request whose awaited call
\* has completed takes its next step.
SpecFair == Init /\ [][Next]_vars /\ \A r \in Reqs : WF_vars(Step(r))

----------------------------------------------------------------------------
\* Vocabulary of the properties.

Done(r) == pc[r] = "done"

HasFile(r) == buffer[r] # NoFile

\* extractTextWithOCR has returned or thrown
OCRExited(r) == ocrResult[r] \in {"returned", "thrown"}

\* The response a request with payload d gets when it is the only request.
SoloResponse(d) ==
  IF d = NoFile THEN ErrorResponse(400, NoFileMessage)
  ELSE IF ~NeedsOCR(StructuralText(d)) THEN TextResponse(StructuralText(d))
  ELSE IF tempDirExists /\ Payloads[d].rasterOk /\ engineOk /\ Payloads[d].ocrOk
    THEN TextResponse(Payloads[d].ocrText)
  ELSE IF StructuralText(d) = <<>> THEN ErrorResponse(500, BothFailedMessage)
  ELSE TextResponse(StructuralText(d))

\* worker.recognize resolved in this call: only then is `text` bound and
\* worker.terminate() reached.
Recognized(r) ==
  \/ pc[r] \in {"terminate", "unlinkPdf", "unlinkImage"}
  \/ workers[WorkerId(r)] = "terminated"

\* success: text from a stage that was accepted; partial: the structural
\* text kept after a failed OCR attempt; failure: an error.
Classification(r) ==
  IF response[r].kind = "error" THEN "failure"
  ELSE IF ocrResult[r] = "thrown" THEN "partial"
  ELSE "success"

----------------------------------------------------------------------------
\* C1: when an invocation of extractTextWithOCR has returned or thrown,
\* neither the PDF copy nor the image it created is still on the filesystem.
CleanupInvariant ==
  \A r \in Reqs : OCRExited(r) => \A p \in Paths : files[p].by # r

\* C2: two requests that are inside the OCR pipeline at the same time use
\* distinct paths for their PDF copy and for their image.
DistinctArtifactPaths ==
  \A r, q \in Reqs :
    (r # q /\ InOCR(r) /\ InOCR(q)) =>
      {TempPdfPath(r), ImagePath(r)} \cap {TempPdfPath(q), ImagePath(q)} = {}

\* C3: when the requests carry distinct payloads that all need the OCR
\* fallback, each answered request has the response it would get alone.
IndependentOutcomes ==
  ( /\ \A r \in Reqs : HasFile(r) /\ NeedsOCR(StructuralText(buffer[r]))
    /\ \A r, q \in Reqs : r # q => buffer[r] # buffer[q] )
  => \A r \in Reqs : Done(r) => response[r] = SoloResponse(buffer[r])

\* C4: a request whose trimmed structural text has at least 50 characters
\* never enters the OCR pipeline (no call, no file written, no worker) and
\* is answered with that trimmed text.
ShortCircuit ==
  \A r \in Reqs :
    ( /\ HasFile(r)
      /\ Payloads[buffer[r]].parseOk
      /\ Len(Trim(Payloads[buffer[r]].parseText)) >= MinTextLength )
    => /\ ocrCalls[r] = 0
       /\ ocrResult[r] = "none"
       /\ ~InOCR(r)
       /\ \A p \in Paths : files[p].by # r
       /\ workers[WorkerId(r)] = "none"
       /\ Done(r) => response[r] = TextResponse(Trim(Payloads[buffer[r]].parseText))

ShortCircuitWitness ==
  \E r \in Reqs :
    /\ HasFile(r)
    /\ Payloads[buffer[r]].parseOk
    /\ Len(Trim(Payloads[buffer[r]].parseText)) = MinTextLength
    /\ Done(r)
    /\ response[r].kind = "text"

\* C5: a request whose structural text is empty (the reader may have
\* failed) or shorter than 50 once trimmed calls extractTextWithOCR exactly
\* once: once the structural attempt is over the count is 1, and it never
\* exceeds 1.
OCRInvokedExactlyOnce ==
  \A r \in Reqs :
    /\ ocrCalls[r] <= 1
    /\ ( /\ HasFile(r)
         /\ pc[r] \notin {"start", "pdfParse"}
         /\ \/ ~Payloads[buffer[r]].parseOk
            \/ Len(Trim(Payloads[buffer[r]].parseText)) < MinTextLength )
       => ocrCalls[r] = 1

OCRInvokedExactlyOnceWitness ==
  \E r \in Reqs :
    /\ HasFile(r)
    /\ Payloads[buffer[r]].parseOk
    /\ Len(Trim(Payloads[buffer[r]].parseText)) = MinTextLength - 1
    /\ Done(r)
    /\ ocrCalls[r] = 1

\* C6: when extractTextWithOCR returns, the response is {text: OCR text},
\* whatever the structural text was.
OCRTextReplaces ==
  \A r \in Reqs :
    ocrResult[r] = "returned" =>
      /\ response[r] = TextResponse(text[r])
      /\ extractedText[r] = text[r]

\* the OCR text is empty and replaces a non-empty structural text
OCRTextReplacesWitness ==
  \E r \in Reqs :
    /\ ocrResult[r] = "returned"
    /\ StructuralText(buffer[r]) # <<>>
    /\ text[r] = <<>>
    /\ response[r].kind = "text"

\* C7: when the structural text is non-empty and below the threshold and
\* extractTextWithOCR throws, the response is {text: structural text}.
PartialTextKept ==
  \A r \in Reqs :
    ( /\ ocrResult[r] = "thrown"
      /\ Payloads[buffer[r]].parseOk
      /\ Trim(Payloads[buffer[r]].parseText) # <<>>
      /\ Len(Trim(Payloads[buffer[r]].parseText)) < MinTextLength )
    => response[r] = TextResponse(Trim(Payloads[buffer[r]].parseText))

PartialTextKeptWitness ==
  \E r \in Reqs :
    /\ ocrResult[r] = "thrown"
    /\ Payloads[buffer[r]].parseOk
    /\ Trim(Payloads[buffer[r]].parseText) = Short
    /\ response[r].kind = "text"

\* C8: when the structural text is empty and extractTextWithOCR throws, the
\* response is the error 'Failed to extract text from PDF using both direct
\* extraction and OCR' and no text is sent.
BothFailedIsError ==
  \A r \in Reqs :
    ( /\ ocrResult[r] = "thrown"
      /\ \/ ~Payloads[buffer[r]].parseOk
         \/ Trim(Payloads[buffer[r]].parseText) = <<>> )
    => /\ response[r].kind = "error"
       /\ response[r].error = BothFailedMessage
       /\ response[r].text = <<>>

BothFailedIsErrorWitness ==
  \E r \in Reqs :
    /\ ocrResult[r] = "thrown"
    /\ Payloads[buffer[r]].parseOk
    /\ Payloads[buffer[r]].parseText = <<>>
    /\ response[r].kind = "error"

\* C9 as stated: a request with a file is answered with text only if a
\* stage completed without failure, and with an error only if both the
\* structural reader and the OCR pipeline failed.
ErrorOnlyIfBothStagesFailed ==
  \A r \in Reqs :
    (Done(r) /\ HasFile(r)) =>
      /\ response[r].kind = "text" => (~parseFailed[r] \/ ocrResult[r] = "returned")
      /\ response[r].kind = "error" => (parseFailed[r] /\ ocrResult[r] = "thrown")

\* C9, amended: a request with a file is answered with text only if a stage
\* completed without failure, and with an error only if the OCR pipeline
\* failed and the structural reader failed or yielded an empty trimmed text.
ErrorOnlyIfOCRFailedOnEmpty ==
  \A r \in Reqs :
    (Done(r) /\ HasFile(r)) =>
      /\ response[r].kind = "text" => (~parseFailed[r] \/ ocrResult[r] = "returned")
      /\ response[r].kind = "error" =>
           /\ ocrResult[r] = "thrown"
           /\ \/ parseFailed[r]
              \/ Trim(Payloads[buffer[r]].parseText) = <<>>

\* an error although the structural reader returned (whitespace only)
ErrorOnlyIfOCRFailedOnEmptyWitness ==
  \E r \in Reqs :
    /\ Done(r)
    /\ HasFile(r)
    /\ response[r].kind = "error"
    /\ ~parseFailed[r]
    /\ Payloads[buffer[r]].parseText # <<>>

\* C10: two sequential calls with the same bytes end in the same
\* classification.
SameClassification ==
  \A r, q \in Reqs :
    (Done(r) /\ Done(q) /\ buffer[r] = buffer[q]) => Classification(r) = Classification(q)

\* the second call started from the files a failed first call left behind
SameClassificationWitness ==
  \E r, q \in Reqs :
    /\ r < q
    /\ Done(r) /\ Done(q)
    /\ HasFile(r)
    /\ buffer[r] = buffer[q]
    /\ ocrResult[r] = "thrown"
    /\ ocrResult[q] = "thrown"
    /\ \E p \in Paths : files[p].by = q

\* C11: once recognition has succeeded, a failing unlink does not change
\* the result: the call returns the recognized text and the response is
\* {text: recognized text}.
UnlinkFailureKeepsResult ==
  \A r \in Reqs :
    (Recognized(r) /\ Done(r)) =>
      /\ ocrResult[r] = "returned"
      /\ response[r] = TextResponse(text[r])

\* C12: when an invocation of extractTextWithOCR has returned or thrown,
\* the worker it created is no longer live.
WorkerTerminatedOnExit ==
  \A r \in Reqs : OCRExited(r) => workers[WorkerId(r)] # "live"

\* C13: a rejection of pdfParse does not end the request: extractedText is
\* empty, extractTextWithOCR is called, no response is sent before it
\* exits, and when it returns the response is {text: OCR text}.
ParseFailureFallsBackToOCR ==
  \A r \in Reqs :
    ( /\ HasFile(r)
      /\ ~Payloads[buffer[r]].parseOk
      /\ pc[r] \notin {"start", "pdfParse"} )
    => /\ parseFailed[r]
       /\ ocrCalls[r] = 1
       /\ InOCR(r) => (extractedText[r] = <<>> /\ response[r] = NoResponse)
       /\ Done(r) => OCRExited(r)
       /\ ocrResult[r] = "returned" => response[r] = TextResponse(text[r])

ParseFailureFallsBackToOCRWitness ==
  \E r \in Reqs :
    /\ parseFailed[r]
    /\ ocrResult[r] = "returned"
    /\ response[r].kind = "text"
    /\ response[r].text # <<>>

\* C14: every request is eventually answered; it is answered exactly when
\* it reaches its terminal state, with either {text} or {error} and never
\* both; and once answered nothing of the request changes any more: no
\* second response, no further stage.
OneTerminalResponse ==
  /\ \A r \in Reqs : <>Done(r)
  /\ [](\A r \in Reqs :
          /\ Done(r) <=> response[r].kind \in {"text", "error"}
          /\ response[r].kind = "text" => response[r].error = ""
          /\ response[r].kind = "error" => response[r].text = <<>>
          /\ Done(r) => Classification(r) \in {"success", "partial", "failure"})
  /\ [][\A r \in Reqs :
          Done(r) => /\ pc'[r] = pc[r]
                     /\ response'[r] = response[r]
                     /\ ocrCalls'[r] = ocrCalls[r]
                     /\ ocrResult'[r] = ocrResult[r]
                     /\ extractedText'[r] = extractedText[r]]_vars

\* all requests answered, one of them with the partial text
OneTerminalResponseWitness ==
  /\ \A r \in Reqs : Done(r)
  /\ \E r \in Reqs : Classification(r) = "partial"
  /\ \E r \in Reqs : Classification(r) = "failure" /\ ocrResult[r] = "thrown"

\* The order of the awaited calls of one request.
StageSuccessor ==
  [ start        |-> {"pdfParse", "done"},
    pdfParse     |-> {"writeFile", "done"},
    writeFile    |-> {"convert", "done"},
    convert      |-> {"createWorker", "done"},
    createWorker |-> {"recognize", "done"},
    recognize    |-> {"terminate", "done"},
    terminate    |-> {"unlinkPdf"},
    unlinkPdf    |-> {"unlinkImage", "done"},
    unlinkImage  |-> {"done"},
    done         |-> {} ]

\* C15: a request moves from one awaited call to the next in the order
\* pdfParse, writeFile, convert, createWorker, recognize, terminate, unlink,
\* unlink; extractTextWithOCR is entered only by the step that completes the
\* structural attempt and finds the gate closed; the PDF copy is written only
\* by the writeFile step, the image only by the convert step, the text is
\* recognized only by the recognize step and files are removed only by an
\* unlink step.
StagesInOrder ==
  [][\A r \in Reqs :
       /\ pc'[r] # pc[r] => pc'[r] \in StageSuccessor[pc[r]]
       /\ ocrCalls'[r] # ocrCalls[r] =>
            /\ pc[r] = "pdfParse"
            /\ extractedText'[r] = StructuralText(buffer[r])
            /\ NeedsOCR(extractedText'[r])
       /\ InOCR(r)' => ocrCalls'[r] = 1
       /\ ( /\ files'[TempPdfPath(r)] # files[TempPdfPath(r)]
            /\ files'[TempPdfPath(r)].by = r ) => pc[r] = "writeFile"
       /\ ( /\ files'[ImagePath(r)] # files[ImagePath(r)]
            /\ files'[ImagePath(r)].by = r ) => pc[r] = "convert"
       /\ text'[r] # text[r] => pc[r] = "recognize"
       /\ \A p \in Paths :
            (files[p] # Absent /\ files'[p] = Absent) =>
              \E q \in Reqs : pc[q] \in {"unlinkPdf", "unlinkImage"} /\ pc'[q] # pc[q]
    ]_vars

\* a request that went through every step of the pipeline
StagesInOrderWitness ==
  \E r \in Reqs :
    /\ Done(r)
    /\ ocrCalls[r] = 1
    /\ ocrResult[r] = "returned"
    /\ workers[WorkerId(r)] = "terminated"
    /\ \A p \in Paths : files[p] = Absent

\* C17: the creation of the scratch directory has completed before a
\* request is taken up, and the directory exists whenever a request's
\* fs.writeFile is under way.
ScratchDirReadyBeforeRequests ==
  \A r \in Reqs :
    /\ pc[r] # "start" => mkdir = "resolved"
    /\ pc[r] = "writeFile" => tempDirExists

\* The paths at which a rasterized page can be stored.
ImagePaths ==
  {ImagePath(r) : r \in Reqs} \cup {PageImagePath(PagesTempDir, n) : n \in PageNumbers}

\* C16: an invocation of the OCR pipeline rasterizes one page, the first,
\* whatever the page count; the image it creates is a single file, the one
\* that is recognized, and it is gone once the pipeline has returned.
OnePageRasterized ==
  \A r \in Reqs :
    /\ pageToConvertAsImage[r] # <<>> =>
         /\ Len(pageToConvertAsImage[r]) = 1
         /\ pageToConvertAsImage[r][1].page = 1
         /\ ResultPath(r) \in ImagePaths
    /\ \A p \in ImagePaths :
         files[p].by = r => pageToConvertAsImage[r] # <<>> /\ p = ResultPath(r)
    /\ ocrResult[r] = "returned" => \A p \in ImagePaths : files[p].by # r

\* a request whose handling raised a failure that no stage handles
FailedAtBoundary(r) == request[r].method = "POST" /\ request[r].failure.thrown

FixedMessages ==
  {NoFileMessage, BothFailedMessage, MethodNotAllowedMessage, InvalidFormMessage,
   DefaultMessage}

====
